---------------------------- MODULE Spec2Model ----------------------------
(***************************************************************************)
(* Model of parser-script.py: the FIO result extractor (parse_fio_output), *)
(* the filename helper (generate_fio_filenames) and the aggregation and    *)
(* CSV report of main.                                                     *)
(*                                                                         *)
(* Numbers.  JSON numbers of a document are integers.  A metric value (a   *)
(* Python float) is kept in fixed point, as an integer count of            *)
(* thousandths, so that the two-decimal rendering f"{v:.2f}" is a real     *)
(* rounding step.  Strings are TLA+ strings; a Python dict is the sequence *)
(* of its <<key, value>> pairs in insertion order.                         *)
(***************************************************************************)
EXTENDS Integers, Sequences, FiniteSets, TLC

VARIABLES
  args,                  \* parsed command line: iterations, output_filepath
  generated_fio_files,   \* main: list of run document names
  pc,                    \* position of main
  i,                     \* main: index of the loop over the run documents
  exc,                   \* the exception that ended main, or "none"
  data,                  \* the run document read last (file state and content)
  metrics, units,        \* main: what parse_fio_output returned last
  extracted,             \* the value parse_fio_output returned for each document so far
  all_metrics,           \* main: metric name -> list of values
  global_units_map,      \* main: metric name -> unit, last write wins
  avg_latency_values,    \* main
  stdev_latency_values,  \* main
  individual_run_data,   \* main: one dict per successful run
  aggregated_results,    \* main: rows of the summary table
  csv_opened,            \* whether the report file was ever opened for writing
  csv_rows,              \* rows that reached the report file
  stdout                 \* lines printed by main and parse_fio_output (tags)

vars == <<args, generated_fio_files, pc, i, exc, data, metrics, units, extracted,
          all_metrics, global_units_map, avg_latency_values,
          stdev_latency_values, individual_run_data, aggregated_results,
          csv_opened, csv_rows, stdout>>

(***************************************************************************)
(* Bounds and program constants                                            *)
(***************************************************************************)
\* largest --iterations value explored
MaxIterations == 3

NS_PER_MS == 1000000
US_PER_MS == 1000
MS_PER_MS == 1
KIB_PER_MIB == 1024

(***************************************************************************)
(* Python dicts: sequences of <<key, value>> pairs in insertion order      *)
(***************************************************************************)
DictKeys(d) == [j \in 1..Len(d) |-> d[j][1]]

DictHas(d, k) == \E j \in 1..Len(d) : d[j][1] = k

DictIndex(d, k) == CHOOSE j \in 1..Len(d) : d[j][1] = k

\* d.get(k, default)
DictGet(d, k, default) == IF DictHas(d, k) THEN d[DictIndex(d, k)][2] ELSE default

\* d[k] = v : an existing key keeps its position
DictSet(d, k, v) ==
  IF DictHas(d, k)
    THEN [j \in 1..Len(d) |-> IF d[j][1] = k THEN <<k, v>> ELSE d[j]]
    ELSE Append(d, <<k, v>>)

RECURSIVE DictUpdateFrom(_, _, _)
DictUpdateFrom(d, e, j) ==
  IF j > Len(e) THEN d ELSE DictUpdateFrom(DictSet(d, e[j][1], e[j][2]), e, j + 1)

\* d.update(e)
DictUpdate(d, e) == DictUpdateFrom(d, e, 1)

(***************************************************************************)
(* JSON values                                                             *)
(***************************************************************************)
Num(n) == [t |-> "num", n |-> n]
Obj(f) == [t |-> "obj", f |-> f]
List(s) == [t |-> "list", s |-> s]
EmptyObj == Obj(<<>>)

\* Python truthiness of a JSON value, None standing for an absent key
None == [t |-> "none"]

Truthy(v) ==
  CASE v.t = "none" -> FALSE
    [] v.t = "num"  -> v.n # 0
    [] v.t = "obj"  -> DOMAIN v.f # {}
    [] v.t = "list" -> Len(v.s) > 0

\* o.get(k, default) on a dict o
ObjGet(o, k, default) == IF k \in DOMAIN o.f THEN o.f[k] ELSE default

(***************************************************************************)
(* Fixed point                                                             *)
(***************************************************************************)
\* the float n, in thousandths
Fixed(n) == n * 1000

\* the float a / b, in thousandths (truncated)
FixDiv(a, b) == (a \div b) * 1000 + ((a % b) * 1000) \div b

TwoDigits(n) == IF n < 10 THEN "0" \o ToString(n) ELSE ToString(n)

\* f"{v:.2f}" of a non-negative value v in thousandths
Fmt2(v) ==
  LET h == (v + 5) \div 10
  IN ToString(h \div 100) \o "." \o TwoDigits(h % 100)


(***************************************************************************)
(* parse_fio_output                                                        *)
(***************************************************************************)
Returned(m, u, out) == [exc |-> "none", metrics |-> m, units |-> u, out |-> out]

\* an exception that leaves parse_fio_output
Raised(e) == [exc |-> e, metrics |-> <<>>, units |-> <<>>, out |-> <<>>]

\* a chain that probes microseconds before nanoseconds
LatencyCandidatesUsFirst ==
  << <<"read", "lat_us", US_PER_MS>>,
     <<"read", "lat_ns", NS_PER_MS>>,
     <<"read", "lat_ms", MS_PER_MS>>,
     <<"write", "lat_us", US_PER_MS>>,
     <<"write", "lat_ns", NS_PER_MS>>,
     <<"write", "lat_ms", MS_PER_MS>> >>

\* the if/elif chain of the latency probe: section, key, conversion factor
LatencyCandidates ==
  << <<"read", "lat_ns", NS_PER_MS>>,
     <<"read", "lat_us", US_PER_MS>>,
     <<"read", "lat_ms", MS_PER_MS>>,
     <<"write", "lat_ns", NS_PER_MS>>,
     <<"write", "lat_us", US_PER_MS>>,
     <<"write", "lat_ms", MS_PER_MS>> >>

\* job_data.get(section, {}).get(key)
Probe(job, c) == ObjGet(ObjGet(job, c[1], EmptyObj), c[2], None)

\* index of the branch of the chain that is taken, 0 when none is
SelectLatency(job) ==
  IF \E j \in 1..Len(LatencyCandidates) : Truthy(Probe(job, LatencyCandidates[j]))
    THEN CHOOSE j \in 1..Len(LatencyCandidates) :
           /\ Truthy(Probe(job, LatencyCandidates[j]))
           /\ \A h \in 1..(j - 1) : ~Truthy(Probe(job, LatencyCandidates[h]))
    ELSE 0

\* the metrics and units of the first job, or the AttributeError of a .get on a non-dict
ExtractJob(job_data) ==
  IF job_data.t # "obj" THEN Raised("AttributeError")
  ELSE
    LET cpu_usr == Fixed(ObjGet(job_data, "usr_cpu", Num(0)).n)
        cpu_sys == Fixed(ObjGet(job_data, "sys_cpu", Num(0)).n)
        read    == ObjGet(job_data, "read", EmptyObj)
        write   == ObjGet(job_data, "write", EmptyObj)
    IN
    IF read.t # "obj" \/ write.t # "obj" THEN Raised("AttributeError")
    ELSE
      LET read_bw    == ObjGet(read, "bw", Num(0)).n
          write_bw   == ObjGet(write, "bw", Num(0)).n
          read_iops  == ObjGet(read, "iops", Num(0)).n
          write_iops == ObjGet(write, "iops", Num(0)).n
          sel        == SelectLatency(job_data)
          latency_data == IF sel = 0 THEN None ELSE Probe(job_data, LatencyCandidates[sel])
          conversion_factor == IF sel = 0 THEN MS_PER_MS ELSE LatencyCandidates[sel][3]
      IN
      IF sel # 0 /\ latency_data.t # "obj" THEN Raised("AttributeError")
      ELSE
        Returned(
          << <<"cpu_usr", cpu_usr>>,
             <<"cpu_sys", cpu_sys>>,
             <<"cpu_total", cpu_usr + cpu_sys>>,
             <<"bandwidth", FixDiv(read_bw + write_bw, KIB_PER_MIB)>>,
             <<"avg_latency",
               IF sel # 0
                 THEN FixDiv(ObjGet(latency_data, "mean", Num(0)).n, conversion_factor)
                 ELSE 0>>,
             <<"stdev_latency",
               IF sel # 0
                 THEN FixDiv(ObjGet(latency_data, "stddev", Num(0)).n, conversion_factor)
                 ELSE 0>>,
             <<"iops", Fixed(read_iops + write_iops)>> >>,
          << <<"cpu_usr", "%">>,
             <<"cpu_sys", "%">>,
             <<"cpu_total", "%">>,
             <<"bandwidth", "MiB/s">>,
             <<"avg_latency", IF sel # 0 THEN "ms" ELSE "N/A">>,
             <<"stdev_latency", IF sel # 0 THEN "ms" ELSE "N/A">>,
             <<"iops", "ops/s">> >>,
          <<>>)

\* the part of parse_fio_output after json.load: data is the decoded document
ParseData(d) ==
  IF d.t \notin {"obj", "list"} THEN Raised("TypeError")         \* 'jobs' in data
  ELSE IF d.t = "list" \/ "jobs" \notin DOMAIN d.f THEN Returned(<<>>, <<>>, <<>>)
  ELSE
    LET jobs == d.f["jobs"] IN
    IF jobs.t \notin {"obj", "list"} THEN Raised("TypeError")    \* len(data['jobs'])
    ELSE IF jobs.t = "obj"
      THEN IF DOMAIN jobs.f = {} THEN Returned(<<>>, <<>>, <<>>)
           ELSE Raised("KeyError")                               \* data['jobs'][0]
    ELSE IF Len(jobs.s) = 0 THEN Returned(<<>>, <<>>, <<>>)
    ELSE ExtractJob(jobs.s[1])

\* doc is the file at file_path: its state and, when it decodes, its content
parse_fio_output(doc) ==
  CASE doc.file = "missing"    -> Returned(<<>>, <<>>, <<"Error: File not found">>)
    [] doc.file = "unreadable" -> Raised("OSError")
    [] doc.file = "badjson"    -> Returned(<<>>, <<>>, <<"Error: Invalid JSON">>)
    [] doc.file = "ok"         -> ParseData(doc.json)

(***************************************************************************)
(* generate_fio_filenames                                                  *)
(***************************************************************************)
RECURSIVE FilenamesFrom(_, _, _)
\* the for loop over range(k, num_iterations + 1)
FilenamesFrom(k, num_iterations, prefix) ==
  IF k > num_iterations THEN <<>>
  ELSE <<prefix \o ToString(k) \o ".json">> \o FilenamesFrom(k + 1, num_iterations, prefix)

\* a helper without the check of the iteration count
generate_fio_filenames_unchecked(num_iterations, prefix) ==
  IF prefix = "" THEN [exc |-> "ValueError", names |-> <<>>]
  ELSE [exc |-> "none", names |-> FilenamesFrom(1, num_iterations, prefix)]

\* argparse's type=int makes num_iterations an int and prefix a str
generate_fio_filenames(num_iterations, prefix) ==
  IF num_iterations <= 0 THEN [exc |-> "ValueError", names |-> <<>>]
  ELSE IF prefix = "" THEN [exc |-> "ValueError", names |-> <<>>]
  ELSE [exc |-> "none", names |-> FilenamesFrom(1, num_iterations, prefix)]

(***************************************************************************)
(* main: the loop over the run documents                                   *)
(***************************************************************************)
\* a loop that takes every extraction for a successful run
RunSucceededAlways(m) == TRUE

\* `if metrics:` : a non-empty extraction
RunSucceeded(m) == m # <<>>

\* f"{key} ({unit})"
ColumnKey(key, unit) == key \o " (" \o unit \o ")"

RECURSIVE RunDataFrom(_, _, _, _)
RunDataFrom(run_data, m, u, j) ==
  IF j > Len(m) THEN run_data
  ELSE RunDataFrom(
         DictSet(run_data, ColumnKey(m[j][1], DictGet(u, m[j][1], "")), Fmt2(m[j][2])),
         m, u, j + 1)

\* run_data of one successful run; run is i + 1
RunData(run, m, u) == RunDataFrom(<< <<"Run", run>> >>, m, u, 1)

RECURSIVE AppendMetricsFrom(_, _, _)
AppendMetricsFrom(all, m, j) ==
  IF j > Len(m) THEN all
  ELSE AppendMetricsFrom(
         DictSet(all, m[j][1], Append(DictGet(all, m[j][1], <<>>), m[j][2])), m, j + 1)

\* all_metrics[key].append(value) for every metric of the run
AppendMetrics(all, m) == AppendMetricsFrom(all, m, 1)

\* a collection that does not look at the unit
CollectLatencyAnyUnit(values, m, u, key) ==
  IF DictHas(m, key) THEN Append(values, DictGet(m, key, 0)) ELSE values

\* the latency value of a run is collected when its unit is not 'N/A'
CollectLatency(values, m, u, key) ==
  IF DictHas(m, key) /\ DictGet(u, key, "None") # "N/A"
    THEN Append(values, DictGet(m, key, 0))
    ELSE values

(***************************************************************************)
(* main: the summary table                                                 *)
(***************************************************************************)
RECURSIVE SeqSum(_)
SeqSum(s) == IF s = <<>> THEN 0 ELSE Head(s) + SeqSum(Tail(s))

SeqMin(s) == CHOOSE x \in {s[j] : j \in 1..Len(s)} : \A j \in 1..Len(s) : x <= s[j]

SeqMax(s) == CHOOSE x \in {s[j] : j \in 1..Len(s)} : \A j \in 1..Len(s) : x >= s[j]

RECURSIVE SqrtSearch(_, _, _)
SqrtSearch(x, lo, hi) ==
  IF lo = hi THEN lo
  ELSE LET mid == (lo + hi + 1) \div 2
       IN IF mid * mid <= x THEN SqrtSearch(x, mid, hi) ELSE SqrtSearch(x, lo, mid - 1)

\* math.sqrt, truncated to an integer
Isqrt(x) == SqrtSearch(x, 0, 46340)

\* the divisor of the population variance
StdevDivisorPopulation(n) == n

\* the divisor of the variance: Bessel's correction
StdevDivisor(n) == n - 1

\* math.sqrt(sum_sq_diff / (len(values) - 1)), in thousandths
SampleStdev(values) ==
  LET avg_value   == SeqSum(values) \div Len(values)
      sum_sq_diff == SeqSum([j \in 1..Len(values) |->
                               (values[j] - avg_value) * (values[j] - avg_value)])
  IN Isqrt(sum_sq_diff \div StdevDivisor(Len(values)))

\* metric_name.replace('_', ' ').title(), on the metric names of parse_fio_output
Title(metric_name) ==
  CASE metric_name = "cpu_usr"       -> "Cpu Usr"
    [] metric_name = "cpu_sys"       -> "Cpu Sys"
    [] metric_name = "cpu_total"     -> "Cpu Total"
    [] metric_name = "bandwidth"     -> "Bandwidth"
    [] metric_name = "avg_latency"   -> "Avg Latency"
    [] metric_name = "stdev_latency" -> "Stdev Latency"
    [] metric_name = "iops"          -> "Iops"

\* the Std Dev cell of a non-empty series
StdevCell(values) == IF Len(values) > 1 THEN Fmt2(SampleStdev(values)) ELSE "N/A"

\* one row of the summary table
SummaryRow(metric_name, values, unit) ==
  IF Len(values) > 0
    THEN << Title(metric_name),
            Fmt2(SeqSum(values) \div Len(values)),
            StdevCell(values),
            unit,
            Fmt2(SeqMin(values)),
            Fmt2(SeqMax(values)) >>
    ELSE << Title(metric_name), "No data", "N/A", "N/A", "N/A", "N/A" >>

\* the unit cell of a cross-run latency row
LatencyRowUnit(gum, key) == DictGet(gum, key, "ms")

\* the cross-run min/max row of a latency metric, when it has values
LatencyRows(label, values, gum, key) ==
  IF values # <<>>
    THEN << << label, "", "", LatencyRowUnit(gum, key),
               Fmt2(SeqMin(values)), Fmt2(SeqMax(values)) >> >>
    ELSE <<>>

AggregatedResults(all, gum, avg_values, stdev_values) ==
  << << "Metric", "Average", "Std Dev", "Unit", "Min", "Max" >> >>
  \o [j \in 1..Len(all) |-> SummaryRow(all[j][1], all[j][2], DictGet(gum, all[j][1], ""))]
  \o LatencyRows("Average Latency", avg_values, gum, "avg_latency")
  \o LatencyRows("Standard Deviation Latency", stdev_values, gum, "stdev_latency")

\* `if not all_metrics:`
NoMetrics(all) == all = <<>>

(***************************************************************************)
(* main: the CSV report                                                    *)
(***************************************************************************)
RECURSIVE AddKeys(_, _, _)
AddKeys(fieldnames, keys, j) ==
  IF j > Len(keys) THEN fieldnames
  ELSE AddKeys(IF \E h \in 1..Len(fieldnames) : fieldnames[h] = keys[j]
                 THEN fieldnames ELSE Append(fieldnames, keys[j]),
               keys, j + 1)

RECURSIVE FieldnamesFrom(_, _, _)
FieldnamesFrom(fieldnames, rows, j) ==
  IF j > Len(rows) THEN fieldnames
  ELSE FieldnamesFrom(AddKeys(fieldnames, DictKeys(rows[j]), 1), rows, j + 1)

\* the header of the per-run table: the keys of the rows in first-seen order
Fieldnames(rows) == FieldnamesFrom(<<"Run">>, rows, 1)

\* a cell of a per-run row as csv.writer writes it: row.get(key, ''), str() of an int
RunCell(row, key) ==
  IF ~DictHas(row, key) THEN ""
  ELSE IF key = "Run" THEN ToString(DictGet(row, key, 0))
  ELSE DictGet(row, key, "")

RunRow(row, fieldnames) == [h \in 1..Len(fieldnames) |-> RunCell(row, fieldnames[h])]

\* every row handed to writer.writerow, in order
ReportRows(rows, aggregated) ==
  (IF rows # <<>>
     THEN << <<"Individual Run Metrics">>, Fieldnames(rows) >>
          \o [j \in 1..Len(rows) |-> RunRow(rows[j], Fieldnames(rows))]
          \o << <<>> >>
     ELSE <<>>)
  \o << <<"Aggregated Metrics">> >>
  \o aggregated

\* a try block that reports success whatever happened
WriteMessagesAlwaysSuccess(failed, cause) == << "Results successfully written" >>

\* what the try block prints: failed is whether an IOError was raised in it
WriteMessages(failed, cause) ==
  IF failed THEN << "Error writing to CSV file: " \o cause >>
  ELSE << "Results successfully written" >>

(***************************************************************************)
(* Run documents                                                           *)
(***************************************************************************)
Lat(mean, stddev) == Obj([mean |-> Num(mean), stddev |-> Num(stddev)])

\* a file that cannot be read or decoded
BadFile(kind) == [file |-> kind, json |-> None]

\* a file that decodes to the JSON value v
JsonFile(v) == [file |-> "ok", json |-> v]

\* a document whose first job is job
JobFile(job) == JsonFile(Obj([jobs |-> List(<<job>>)]))

\* read.lat_ns wins over read.lat_us: 5 ms
DocNs ==
  JobFile(Obj([usr_cpu |-> Num(10), sys_cpu |-> Num(5),
               read |-> Obj([bw |-> Num(2048), iops |-> Num(10),
                             lat_ns |-> Lat(5000000, 1000000),
                             lat_us |-> Lat(7000, 500)])]))

\* no latency data at all, no sys_cpu
DocNoLat ==
  JobFile(Obj([usr_cpu |-> Num(20),
               write |-> Obj([bw |-> Num(1536), iops |-> Num(5)])]))

\* an empty read.lat_ns, a populated write.lat_ms
DocWriteMs ==
  JobFile(Obj([usr_cpu |-> Num(30), sys_cpu |-> Num(2),
               read |-> Obj([bw |-> Num(1000), lat_ns |-> EmptyObj]),
               write |-> Obj([bw |-> Num(3000), iops |-> Num(7),
                              lat_ms |-> Lat(9, 2)])]))

\* read.lat_us: 12.345 ms
DocUs ==
  JobFile(Obj([sys_cpu |-> Num(1),
               read |-> Obj([iops |-> Num(3), lat_us |-> Lat(12345, 678)])]))

\* a measured latency of zero
DocZeroLat ==
  JobFile(Obj([usr_cpu |-> Num(4), sys_cpu |-> Num(4),
               read |-> Obj([bw |-> Num(512), iops |-> Num(1),
                             lat_ns |-> Lat(0, 0)])]))

\* the well-formed documents of the runs of main
GoodDocs == {DocNs, DocNoLat, DocWriteMs, DocZeroLat}

\* documents parse_fio_output answers with an empty result
EmptyDocs ==
  { BadFile("missing"),
    BadFile("badjson"),
    JsonFile(List(<<Num(1)>>)),
    JsonFile(Obj([version |-> Num(3)])),
    JsonFile(Obj([jobs |-> List(<<>>)])) }

\* documents of unexpected structure, and a path that cannot be read
OddDocs ==
  { BadFile("unreadable"),
    JsonFile(Num(7)),
    JsonFile(Obj([jobs |-> Num(2)])),
    JsonFile(Obj([jobs |-> Obj([a |-> Num(1)])])),
    JobFile(Num(1)),
    JobFile(Obj([read |-> Num(3)])),
    JobFile(Obj([write |-> List(<<Num(3)>>)])),
    JobFile(Obj([read |-> Obj([lat_ns |-> Num(250)])])) }

\* the documents a run file may hold
MainDocs == GoodDocs \cup EmptyDocs \cup OddDocs

LatKeys == {"lat_ns", "lat_us", "lat_ms"}

\* a populated latency entry, different for each of the six places
SlotLat(section, key) ==
  CASE section = "read"  /\ key = "lat_ns" -> Lat(5000000, 1000000)
    [] section = "read"  /\ key = "lat_us" -> Lat(7000, 500)
    [] section = "read"  /\ key = "lat_ms" -> Lat(9, 2)
    [] section = "write" /\ key = "lat_ns" -> Lat(11000000, 3000000)
    [] section = "write" /\ key = "lat_us" -> Lat(13500, 1250)
    [] section = "write" /\ key = "lat_ms" -> Lat(15, 4)

\* st says of each latency key whether it is absent, empty or full
LatSection(section, st) ==
  Obj([k \in {x \in LatKeys : st[x] # "absent"} |->
         IF st[k] = "empty" THEN EmptyObj ELSE SlotLat(section, k)])

\* every combination of absent, empty and full latency entries, and of sections
LatencyDocs ==
  { JobFile(Obj([k \in ({x \in {"read"} : hr} \cup {x \in {"write"} : hw}) |->
                   IF k = "read" THEN LatSection("read", r)
                                 ELSE LatSection("write", w)])) :
      hr \in BOOLEAN, hw \in BOOLEAN,
      r \in [LatKeys -> {"absent", "empty", "full"}],
      w \in [LatKeys -> {"absent", "empty", "full"}] }

NoDoc == [file |-> "none", json |-> None]

(***************************************************************************)
(* main as a state machine                                                 *)
(***************************************************************************)
Init ==
  /\ args \in [iterations : (-1)..MaxIterations, output_filepath : {"", "fio-csv"}]
  /\ generated_fio_files = <<>>
  /\ pc = "start"
  /\ i = 0
  /\ exc = "none"
  /\ data = NoDoc
  /\ metrics = <<>>
  /\ units = <<>>
  /\ extracted = <<>>
  /\ all_metrics = <<>>
  /\ global_units_map = <<>>
  /\ avg_latency_values = <<>>
  /\ stdev_latency_values = <<>>
  /\ individual_run_data = <<>>
  /\ aggregated_results = <<>>
  /\ csv_opened = FALSE
  /\ csv_rows = <<>>
  /\ stdout = <<>>

\* lines 157-161: the names of the run documents, or the ValueError
Start ==
  /\ pc = "start"
  /\ LET g == generate_fio_filenames(args.iterations, args.output_filepath) IN
       /\ generated_fio_files' = g.names
       /\ exc' = g.exc
       /\ pc' = IF g.exc # "none" THEN "crashed" ELSE "loop"
       /\ stdout' = IF g.exc # "none" THEN stdout
                    ELSE Append(stdout, "--- Parsing FIO Output Files ---")
  /\ UNCHANGED <<args, i, data, metrics, units, extracted, all_metrics,
                 global_units_map, avg_latency_values, stdev_latency_values,
                 individual_run_data, aggregated_results, csv_opened, csv_rows>>

\* lines 173-196: one iteration of the loop, on the document found at file_path
ParseFile ==
  /\ pc = "loop"
  /\ i < Len(generated_fio_files)
  /\ \E doc \in MainDocs :
       LET r == parse_fio_output(doc) IN
         /\ data' = doc
         /\ IF r.exc # "none"
              THEN /\ pc' = "crashed"
                   /\ exc' = r.exc
                   /\ stdout' = Append(stdout, "Parsing")
                   /\ UNCHANGED <<i, metrics, units, extracted, all_metrics,
                                  global_units_map, avg_latency_values,
                                  stdev_latency_values, individual_run_data>>
              ELSE /\ metrics' = r.metrics
                   /\ units' = r.units
                   /\ extracted' = Append(extracted,
                                     [metrics |-> r.metrics, units |-> r.units])
                   /\ i' = i + 1
                   /\ pc' = IF i + 1 = Len(generated_fio_files) THEN "aggregate" ELSE "loop"
                   /\ exc' = exc
                   /\ IF RunSucceeded(r.metrics)
                        THEN /\ global_units_map' = DictUpdate(global_units_map, r.units)
                             /\ all_metrics' = AppendMetrics(all_metrics, r.metrics)
                             /\ individual_run_data' =
                                  Append(individual_run_data, RunData(i + 1, r.metrics, r.units))
                             /\ avg_latency_values' =
                                  CollectLatency(avg_latency_values, r.metrics, r.units, "avg_latency")
                             /\ stdev_latency_values' =
                                  CollectLatency(stdev_latency_values, r.metrics, r.units, "stdev_latency")
                             /\ stdout' = stdout \o <<"Parsing">> \o r.out \o <<"Results from">>
                        ELSE /\ stdout' = stdout \o <<"Parsing">> \o r.out
                                            \o <<"Could not extract metrics. Skipping.">>
                             /\ UNCHANGED <<global_units_map, all_metrics, individual_run_data,
                                            avg_latency_values, stdev_latency_values>>
  /\ UNCHANGED <<args, generated_fio_files, aggregated_results, csv_opened, csv_rows>>

\* lines 198-254: the early return without data, or the summary table
Aggregate ==
  /\ pc = "aggregate"
  /\ IF NoMetrics(all_metrics)
       THEN /\ stdout' = Append(stdout, "No metrics extracted from any FIO output files. Exiting.")
            /\ pc' = "done"
            /\ UNCHANGED aggregated_results
       ELSE /\ aggregated_results' =
                 AggregatedResults(all_metrics, global_units_map,
                                   avg_latency_values, stdev_latency_values)
            /\ pc' = "write"
            /\ UNCHANGED stdout
  /\ UNCHANGED <<args, generated_fio_files, i, exc, data, metrics, units, extracted,
                 all_metrics, global_units_map, avg_latency_values,
                 stdev_latency_values, individual_run_data, csv_opened, csv_rows>>

\* lines 258-285: the try block.  fail = -1: no IOError; fail = 0: open raises;
\* fail = k > 0: the k-th writerow raises, or (k past the last row) the close does
WriteCsv ==
  /\ pc = "write"
  /\ LET rows == ReportRows(individual_run_data, aggregated_results) IN
     \E fail \in (-1)..(Len(rows) + 1) :
       /\ csv_opened' = (fail # 0)
       /\ csv_rows' = IF fail = -1 THEN rows ELSE SubSeq(rows, 1, fail - 1)
       /\ stdout' = stdout
                    \o WriteMessages(fail # -1, IF fail = 0 THEN "Permission denied"
                                                ELSE "No space left on device")
                    \o <<"Combined FIO benchmark and parsing script completed.">>
  /\ pc' = "done"
  /\ UNCHANGED <<args, generated_fio_files, i, exc, data, metrics, units, extracted,
                 all_metrics, global_units_map, avg_latency_values,
                 stdev_latency_values, individual_run_data, aggregated_results>>

Next == Start \/ ParseFile \/ Aggregate \/ WriteCsv

Spec == Init /\ [][Next]_vars

(***************************************************************************)
(* parse_fio_output alone, over every combination of latency entries       *)
(***************************************************************************)
InitParse ==
  /\ args = [iterations |-> 1, output_filepath |-> "fio-csv"]
  /\ generated_fio_files = <<"fio-csv1.json">>
  /\ pc = "parse"
  /\ i = 0
  /\ exc = "none"
  /\ data \in LatencyDocs \cup MainDocs \cup {DocUs}
  /\ metrics = <<>>
  /\ units = <<>>
  /\ extracted = <<>>
  /\ all_metrics = <<>>
  /\ global_units_map = <<>>
  /\ avg_latency_values = <<>>
  /\ stdev_latency_values = <<>>
  /\ individual_run_data = <<>>
  /\ aggregated_results = <<>>
  /\ csv_opened = FALSE
  /\ csv_rows = <<>>
  /\ stdout = <<>>

\* line 175: metrics, units = parse_fio_output(file_path)
ParseOnly ==
  /\ pc = "parse"
  /\ LET r == parse_fio_output(data) IN
       /\ metrics' = r.metrics
       /\ units' = r.units
       /\ exc' = r.exc
       /\ stdout' = r.out
       /\ pc' = IF r.exc # "none" THEN "crashed" ELSE "parsed"
  /\ UNCHANGED <<args, generated_fio_files, i, data, extracted, all_metrics,
                 global_units_map, avg_latency_values, stdev_latency_values,
                 individual_run_data, aggregated_results, csv_opened, csv_rows>>

NextParse == ParseOnly

SpecParse == InitParse /\ [][NextParse]_vars

(***************************************************************************)
(* Properties                                                              *)
(***************************************************************************)
Printed(msg) == \E j \in 1..Len(stdout) : stdout[j] = msg

\* the 1-based indices of the documents so far whose extraction was non-empty
OkRuns == {k \in 1..Len(extracted) : extracted[k].metrics # <<>>}

\* the j-th of them in increasing order
NthOk(j) == CHOOSE k \in OkRuns : Cardinality({h \in OkRuns : h <= k}) = j

\* C1: parse_fio_output never raises, whatever the document: once a document
\* has been handed to it, main has not been ended by an exception.
C1_ParseNeverRaises == data # NoDoc => (exc = "none" /\ pc # "crashed")

\* C2: after any prefix of the documents, there is one per-run row per document
\* with a non-empty extraction, in increasing run order and labelled with the
\* document's 1-based index; every series has that length and holds those
\* documents' values; the units map and the latency lists hold only what those
\* documents gave.
C2_RowsMatchSuccessfulRuns ==
  LET n  == Cardinality(OkRuns)
      ok == [j \in 1..n |-> NthOk(j)]
  IN
  /\ Len(individual_run_data) = n
  /\ \A j \in 1..n : DictGet(individual_run_data[j], "Run", 0) = ok[j]
  /\ \A j \in 1..n : \A h \in 1..n :
       j < h => DictGet(individual_run_data[j], "Run", 0)
                  < DictGet(individual_run_data[h], "Run", 0)
  /\ \A m \in 1..Len(all_metrics) :
       /\ Len(all_metrics[m][2]) = n
       /\ \A j \in 1..n :
            /\ DictHas(extracted[ok[j]].metrics, all_metrics[m][1])
            /\ all_metrics[m][2][j] = DictGet(extracted[ok[j]].metrics, all_metrics[m][1], -1)
  /\ \A k \in OkRuns : \A m \in 1..Len(extracted[k].metrics) :
       DictHas(all_metrics, extracted[k].metrics[m][1])
  /\ \A m \in 1..Len(global_units_map) :
       \E k \in OkRuns :
         DictGet(extracted[k].units, global_units_map[m][1], "None") = global_units_map[m][2]
  /\ Len(avg_latency_values) <= n
  /\ Len(stdev_latency_values) <= n
  /\ n = 0 => /\ all_metrics = <<>>
              /\ global_units_map = <<>>
              /\ avg_latency_values = <<>>
              /\ stdev_latency_values = <<>>
              /\ individual_run_data = <<>>

\* C2 witness: three documents, the second without metrics: rows for runs 1 and 3
C2_Witness ==
  /\ Len(extracted) = 3
  /\ OkRuns = {1, 3}
  /\ Len(individual_run_data) = 2
  /\ DictGet(individual_run_data[2], "Run", 0) = 3
  /\ \A m \in 1..Len(all_metrics) : Len(all_metrics[m][2]) = 2

\* every one of the N documents was handed to parse_fio_output, the last of
\* them possibly ending main with the exception it raised
AttemptedAll ==
  \/ Len(extracted) = args.iterations
  \/ pc = "crashed" /\ data # NoDoc /\ Len(extracted) + 1 = args.iterations

\* C3: the report file is opened only after all N documents were processed and
\* at least one gave metrics; when none of the N attempted documents gave any,
\* main says that there is no data, ends normally and never opens or writes the
\* report.
C3_NoDataNoReport ==
  /\ (csv_opened \/ csv_rows # <<>> \/ pc = "write")
       => (Len(extracted) = args.iterations /\ OkRuns # {})
  /\ (pc \in {"done", "crashed"} /\ args.iterations > 0 /\ AttemptedAll /\ OkRuns = {})
       => /\ pc = "done"
          /\ exc = "none"
          /\ Printed("No metrics extracted from any FIO output files. Exiting.")
          /\ ~csv_opened
          /\ csv_rows = <<>>

WriteErrors ==
  { "Error writing to CSV file: Permission denied",
    "Error writing to CSV file: No space left on device" }

WriteErrorPrinted == \E e \in WriteErrors : Printed(e)

\* both sections complete: title, header, one row per run, separator, title, summary rows
FullReportWritten ==
  /\ csv_opened
  /\ Len(csv_rows) = Len(individual_run_data) + 4 + Len(aggregated_results)
  /\ csv_rows[Len(csv_rows)] = aggregated_results[Len(aggregated_results)]

\* C4: in every execution that attempts the report write, exactly one of "all
\* rows of both sections written and success reported" and "a write error
\* reported with its cause" holds; success is never reported before or without
\* the complete report.
C4_WriteAllOrExplicitError ==
  /\ Printed("Results successfully written") => (pc = "done" /\ FullReportWritten)
  /\ (pc = "done" /\ aggregated_results # <<>>)
       => /\ (Printed("Results successfully written") /\ FullReportWritten)
               \/ WriteErrorPrinted
          /\ ~(Printed("Results successfully written") /\ WriteErrorPrinted)
          /\ ~FullReportWritten => WriteErrorPrinted

\* C4 as stated for every execution: whenever main has returned, exactly one of
\* "complete report and success reported" and "write error reported" holds.
C4_EveryExecution ==
  pc = "done"
    => /\ (Printed("Results successfully written") /\ FullReportWritten)
            \/ WriteErrorPrinted
       /\ ~(Printed("Results successfully written") /\ WriteErrorPrinted)

\* C4 witness: the write failed after some rows reached the file
C4_Witness ==
  /\ pc = "done"
  /\ csv_opened
  /\ Len(csv_rows) > 2
  /\ ~FullReportWritten
  /\ WriteErrorPrinted

\* the values of a latency metric over the successful runs whose unit is not 'N/A'
ValidLatency(key) ==
  { DictGet(extracted[k].metrics, key, -1) :
      k \in {h \in OkRuns : DictGet(extracted[h].units, key, "None") # "N/A"} }

SetMin(S) == CHOOSE x \in S : \A y \in S : x <= y

SetMax(S) == CHOOSE x \in S : \A y \in S : x >= y

LatencyRowOk(label, key) ==
  LET at == {j \in 1..Len(aggregated_results) : aggregated_results[j][1] = label}
      valid == ValidLatency(key)
  IN IF valid = {} THEN at = {}
     ELSE /\ Cardinality(at) = 1
          /\ \A j \in at :
               /\ aggregated_results[j][5] = Fmt2(SetMin(valid))
               /\ aggregated_results[j][6] = Fmt2(SetMax(valid))

\* C5: the cross-run min/max row of avg_latency (stdev_latency) is there exactly
\* when some successful run had a unit other than 'N/A' for it, and its Min and
\* Max are those of exactly these runs' values.
C5_LatencyRowsOverValidRuns ==
  aggregated_results # <<>>
    => /\ LatencyRowOk("Average Latency", "avg_latency")
       /\ LatencyRowOk("Standard Deviation Latency", "stdev_latency")

\* C5 witness: a run without latency data beside runs with it, the row's Min above zero
C5_Witness ==
  /\ pc = "write"
  /\ \E k \in OkRuns : DictGet(extracted[k].units, "avg_latency", "None") = "N/A"
  /\ \E j \in 1..Len(aggregated_results) :
       /\ aggregated_results[j][1] = "Average Latency"
       /\ aggregated_results[j][5] = "5.00"

\* the six places of a latency entry in probing order, read before write
ProbeOrder ==
  << <<"read", "lat_ns">>, <<"read", "lat_us">>, <<"read", "lat_ms">>,
     <<"write", "lat_ns">>, <<"write", "lat_us">>, <<"write", "lat_ms">> >>

\* n nanoseconds, microseconds or milliseconds in thousandths of a millisecond
InMilliseconds(key, n) ==
  CASE key = "lat_ns" -> n \div 1000
    [] key = "lat_us" -> n
    [] key = "lat_ms" -> n * 1000

\* the document decoded to an object whose job list has a first entry
HasFirstJob(doc) ==
  /\ doc.file = "ok"
  /\ doc.json.t = "obj"
  /\ "jobs" \in DOMAIN doc.json.f
  /\ doc.json.f["jobs"].t = "list"
  /\ Len(doc.json.f["jobs"].s) > 0

FirstJob(doc) == doc.json.f["jobs"].s[1]

\* the entry at place c of the job is present and is a non-empty object
PresentNonEmpty(job, c) ==
  /\ c[1] \in DOMAIN job.f
  /\ c[2] \in DOMAIN job.f[c[1]].f
  /\ job.f[c[1]].f[c[2]].t = "obj"
  /\ DOMAIN job.f[c[1]].f[c[2]].f # {}

\* C6: the latency source is the first of read.lat_ns, read.lat_us, read.lat_ms,
\* write.lat_ns, write.lat_us, write.lat_ms that is present and non-empty; its
\* mean and stddev are converted to milliseconds with unit 'ms', later entries
\* are ignored, and only when there is none are both metrics 0 with unit 'N/A'.
C6_LatencyPriority ==
  (pc = "parsed" /\ HasFirstJob(data))
    => LET job == FirstJob(data)
           hits == {j \in 1..Len(ProbeOrder) : PresentNonEmpty(job, ProbeOrder[j])}
       IN IF hits = {}
            THEN /\ DictGet(metrics, "avg_latency", -1) = 0
                 /\ DictGet(metrics, "stdev_latency", -1) = 0
                 /\ DictGet(units, "avg_latency", "None") = "N/A"
                 /\ DictGet(units, "stdev_latency", "None") = "N/A"
            ELSE LET c == ProbeOrder[SetMin(hits)]
                     entry == job.f[c[1]].f[c[2]].f
                 IN /\ DictGet(metrics, "avg_latency", -1) = InMilliseconds(c[2], entry["mean"].n)
                    /\ DictGet(metrics, "stdev_latency", -1) = InMilliseconds(c[2], entry["stddev"].n)
                    /\ DictGet(units, "avg_latency", "None") = "ms"
                    /\ DictGet(units, "stdev_latency", "None") = "ms"

\* C6 witness: read.lat_ns and read.lat_us both populated, the nanoseconds taken: 5 ms
C6_Witness ==
  /\ pc = "parsed"
  /\ data = DocNs
  /\ DictGet(metrics, "avg_latency", -1) = 5000
  /\ DictGet(units, "avg_latency", "None") = "ms"

\* the header row of the per-run table as written
WrittenHeader == csv_rows[2]

\* C7: the header of the per-run table is 'Run' and then one column per distinct
\* metric name in first-seen order; every row has as many cells as the header,
\* and each run's value of a metric sits under that metric's column.
C7_OneColumnPerMetric ==
  (pc = "done" /\ Printed("Results successfully written"))
    => /\ Len(WrittenHeader) = 1 + Len(all_metrics)
       /\ WrittenHeader[1] = "Run"
       /\ \A m \in 1..Len(all_metrics) :
            /\ m + 1 <= Len(WrittenHeader)
            /\ \E u \in {"%", "MiB/s", "ms", "ops/s", "N/A"} :
                 WrittenHeader[m + 1] = ColumnKey(all_metrics[m][1], u)
            /\ \A j \in 1..Len(individual_run_data) :
                 /\ Len(csv_rows[2 + j]) = Len(WrittenHeader)
                 /\ csv_rows[2 + j][m + 1] = Fmt2(all_metrics[m][2][j])

\* C8: a non-positive iteration count or an empty prefix ends main with a
\* ValueError before any document is read and before anything is written; a
\* valid configuration gives exactly the N names prefix, i, '.json' for i = 1..N
\* in increasing order.
C8_ConfigRejectedEagerly ==
  pc # "start"
    => IF args.iterations <= 0 \/ args.output_filepath = ""
         THEN /\ pc = "crashed"
              /\ exc = "ValueError"
              /\ data = NoDoc
              /\ extracted = <<>>
              /\ ~csv_opened
              /\ csv_rows = <<>>
         ELSE /\ Len(generated_fio_files) = args.iterations
              /\ \A k \in 1..args.iterations :
                   generated_fio_files[k] = args.output_filepath \o ToString(k) \o ".json"

\* C8 witness: an iteration count of zero was rejected
C8_Witness ==
  /\ pc = "crashed"
  /\ exc = "ValueError"
  /\ args.iterations = 0
  /\ args.output_filepath # ""

\* C9: in the summary table a metric's series is never empty and its row is no
\* 'No data' row; the Std Dev cell is 'N/A' exactly when the series has one
\* sample, and for n >= 2 samples it renders the square root of the sum of
\* squared deviations from the mean divided by n - 1.
C9_StdevCell ==
  pc = "write"
    => \A m \in 1..Len(all_metrics) :
         LET values == all_metrics[m][2]
             n      == Len(values)
             row    == aggregated_results[m + 1]
             mean   == SeqSum(values) \div n
             ssd    == SeqSum([j \in 1..n |-> (values[j] - mean) * (values[j] - mean)])
             r      == SampleStdev(values)
         IN /\ n >= 1
            /\ row[2] # "No data"
            /\ (row[3] = "N/A") <=> (n = 1)
            /\ n = 1 => row[3] # "0.00"
            /\ n >= 2 => /\ r * r <= ssd \div (n - 1)
                         /\ ssd \div (n - 1) < (r + 1) * (r + 1)
                         /\ row[3] = Fmt2(r)

\* C9 witness: the series 10, 20, 30 has mean 20.00 and sample deviation 10.00
C9_Witness ==
  /\ pc = "write"
  /\ DictGet(all_metrics, "cpu_usr", <<>>) = <<10000, 20000, 30000>>
  /\ aggregated_results[2] = <<"Cpu Usr", "20.00", "10.00", "%", "10.00", "30.00">>

\* C10: a cross-run latency min/max row, whenever emitted, has the unit 'ms' of
\* the values it was computed from.
C10_LatencyRowUnitMs ==
  \A j \in 1..Len(aggregated_results) :
    aggregated_results[j][1] \in {"Average Latency", "Standard Deviation Latency"}
      => aggregated_results[j][4] = "ms"

==========================================================================
